---- MODULE Spec2Model ----
(***************************************************************************)
(* Model of src/src/core/nestingEngine.js: NestingEngine.nest and the      *)
(* GuillouinePacker it drives.  One call of nest(items) on an engine built *)
(* from an options object is followed step by step: the early return, the  *)
(* sort and packer construction, one loop iteration per sorted item, and   *)
(* the post-pass decision (recursive retry in an expanded engine, or       *)
(* return of the placement list).                                          *)
(***************************************************************************)
EXTENDS Integers, Sequences, FiniteSets, TLC

\* ------------------------------------------------------------------------
\* Bounds of the model and constants of the program
\* ------------------------------------------------------------------------

\* longest item list passed to nest
MaxItems == 3

\* most placements made on a packer that is driven directly
MaxInserts == 3

\* most images in the document the plugin works on
MaxImages == 2

\* most calls of executeNesting and of undoLastNesting
MaxClicks == 3
MaxUndos == 2

\* nestingEngine.js:8   options.spacing || 10
DefaultSpacing == 10
\* nestingEngine.js:10-11   options.targetWidth || 1000
DefaultTarget == 1000
\* nestingEngine.js:66-67   bounds.maxX + 100
ExpandMargin == 100

\* (width, height) of the items offered to nest
Shapes == { <<100, 50>>, <<100, 100>>, <<600, 600>>, <<950, 950>>,
            <<2000, 2000>>, <<950, 300>> }

\* an option of the options object: <<>> when the key is absent, <<v>> when
\* it is supplied with value v
SpacingOpts == { <<>>, <<0>>, <<20>> }
RotationOpts == { <<>>, <<TRUE>> }
TargetOpts == { <<>>, <<600>> }

\* sizes and spacings of the packers that are driven directly
PackerSizes == { 600, 1000 }
PackerSpacings == { 0, 10, 20 }

Options == [spacing : SpacingOpts, allowRotation : RotationOpts,
            targetWidth : TargetOpts, targetHeight : TargetOpts]

\* the item lists of length at most n: the k-th item carries the payload
\* originalItem = k, and its id is k or repeats the id 1 of the first item
RECURSIVE ItemLists(_)
ItemLists(n) ==
    IF n = 0 THEN { <<>> }
    ELSE LET shorter == ItemLists(n - 1)
         IN  shorter \cup
             { Append(l, [id |-> IF repeat THEN 1 ELSE n,
                          width |-> s[1], height |-> s[2],
                          originalItem |-> n]) :
                 l \in { m \in shorter : Len(m) = n - 1 },
                 repeat \in BOOLEAN, s \in Shapes }

Max(a, b) == IF a >= b THEN a ELSE b
Min(a, b) == IF a <= b THEN a ELSE b

\* F applied to the value of v, with v evaluated once (as a JavaScript const
\* holds the value of its initialiser)
Const(v, F(_)) == CHOOSE r \in { F(x) : x \in { v } } : TRUE

\* ------------------------------------------------------------------------
\* NestingEngine constructor
\* ------------------------------------------------------------------------

\* JavaScript  opt || d  on a number: d when opt is absent or 0
NumOr(opt, d) == IF opt = <<>> THEN d ELSE IF opt[1] = 0 THEN d ELSE opt[1]

\* JavaScript  opt || false  on a boolean
BoolOr(opt, d) == IF opt = <<>> THEN d ELSE IF opt[1] THEN TRUE ELSE d

NewEngine(opts) ==
    [ spacing       |-> NumOr(opts.spacing, DefaultSpacing),
      allowRotation |-> BoolOr(opts.allowRotation, FALSE),
      targetWidth   |-> NumOr(opts.targetWidth, DefaultTarget),
      targetHeight  |-> NumOr(opts.targetHeight, DefaultTarget) ]

\* ------------------------------------------------------------------------
\* GuillouinePacker
\* ------------------------------------------------------------------------

NewPacker(width, height, spacing) ==
    [ binWidth |-> width, binHeight |-> height, spacing |-> spacing,
      freeRectangles |-> << [x |-> 0, y |-> 0,
                             width |-> width, height |-> height] >> ]

isContained(rect, container) ==
    /\ rect.x >= container.x
    /\ rect.y >= container.y
    /\ rect.x + rect.width <= container.x + container.width
    /\ rect.y + rect.height <= container.y + container.height

\* the elements of s whose index satisfies Keep, in order
RECURSIVE FilterIdx(_, _, _)
FilterIdx(s, Keep(_), k) ==
    IF k > Len(s) THEN <<>>
    ELSE IF Keep(k) THEN <<s[k]>> \o FilterIdx(s, Keep, k + 1)
         ELSE FilterIdx(s, Keep, k + 1)

mergeRectangles(free) ==
    LET Keep(k) == \A j \in 1..Len(free) :
                       j = k \/ ~isContained(free[k], free[j])
    IN  FilterIdx(free, Keep, 1)

\* the list s without its element at index k (splice(index, 1))
RemoveAt(s, k) == SubSeq(s, 1, k - 1) \o SubSeq(s, k + 1, Len(s))

\* splitFreeNode giving the right remainder the height of the used part
splitFreeNodeShortRight(free, freeRect, usedWidth, usedHeight, index) ==
    LET removed      == RemoveAt(free, index)
        rightWidth   == freeRect.width - usedWidth
        bottomHeight == freeRect.height - usedHeight
        withRight    == IF rightWidth > 0
                        THEN Append(removed,
                                 [x |-> freeRect.x + usedWidth,
                                  y |-> freeRect.y,
                                  width |-> rightWidth,
                                  height |-> usedHeight])
                        ELSE removed
        withBottom   == IF bottomHeight > 0
                        THEN Append(withRight,
                                 [x |-> freeRect.x,
                                  y |-> freeRect.y + usedHeight,
                                  width |-> usedWidth,
                                  height |-> bottomHeight])
                        ELSE withRight
    IN  Const(withBottom, mergeRectangles)

\* splitFreeNode giving the bottom remainder the width of the free rectangle
splitFreeNodeWideBottom(free, freeRect, usedWidth, usedHeight, index) ==
    LET removed      == RemoveAt(free, index)
        rightWidth   == freeRect.width - usedWidth
        bottomHeight == freeRect.height - usedHeight
        withRight    == IF rightWidth > 0
                        THEN Append(removed,
                                 [x |-> freeRect.x + usedWidth,
                                  y |-> freeRect.y,
                                  width |-> rightWidth,
                                  height |-> freeRect.height])
                        ELSE removed
        withBottom   == IF bottomHeight > 0
                        THEN Append(withRight,
                                 [x |-> freeRect.x,
                                  y |-> freeRect.y + usedHeight,
                                  width |-> freeRect.width,
                                  height |-> bottomHeight])
                        ELSE withRight
    IN  Const(withBottom, mergeRectangles)

\* splitFreeNode without the splice: the used rectangle stays in the list
splitFreeNodeKeepsUsed(free, freeRect, usedWidth, usedHeight, index) ==
    LET rightWidth   == freeRect.width - usedWidth
        bottomHeight == freeRect.height - usedHeight
        withRight    == IF rightWidth > 0
                        THEN Append(free,
                                 [x |-> freeRect.x + usedWidth,
                                  y |-> freeRect.y,
                                  width |-> rightWidth,
                                  height |-> freeRect.height])
                        ELSE free
        withBottom   == IF bottomHeight > 0
                        THEN Append(withRight,
                                 [x |-> freeRect.x,
                                  y |-> freeRect.y + usedHeight,
                                  width |-> usedWidth,
                                  height |-> bottomHeight])
                        ELSE withRight
    IN  Const(withBottom, mergeRectangles)

splitFreeNode(free, freeRect, usedWidth, usedHeight, index) ==
    LET removed      == RemoveAt(free, index)
        rightWidth   == freeRect.width - usedWidth
        bottomHeight == freeRect.height - usedHeight
        withRight    == IF rightWidth > 0
                        THEN Append(removed,
                                 [x |-> freeRect.x + usedWidth,
                                  y |-> freeRect.y,
                                  width |-> rightWidth,
                                  height |-> freeRect.height])
                        ELSE removed
        withBottom   == IF bottomHeight > 0
                        THEN Append(withRight,
                                 [x |-> freeRect.x,
                                  y |-> freeRect.y + usedHeight,
                                  width |-> usedWidth,
                                  height |-> bottomHeight])
                        ELSE withRight
    IN  Const(withBottom, mergeRectangles)

\* the fit test with the height comparison left out
FitsWidthOnly(rect, w, h) == w <= rect.width

\* line 118: the padded footprint (w, h) fits into the free rectangle
Fits(rect, w, h) == w <= rect.width /\ h <= rect.height

shortSideFit(rect, w, h) == Min(rect.width - w, rect.height - h)

\* the search loop with <= for <: a later rectangle of equal score wins
RECURSIVE searchFromLaterWins(_, _, _, _, _)
searchFromLaterWins(free, w, h, i, best) ==
    IF i > Len(free) THEN best
    ELSE IF /\ Fits(free[i], w, h)
            /\ \/ best = 0
               \/ shortSideFit(free[i], w, h) <= shortSideFit(free[best], w, h)
         THEN searchFromLaterWins(free, w, h, i + 1, i)
         ELSE searchFromLaterWins(free, w, h, i + 1, best)

\* lines 115-129: the search loop from index i on, with best the index of
\* bestRect so far (0 while bestRect is null and bestShortSideFit Infinity)
RECURSIVE searchFrom(_, _, _, _, _)
searchFrom(free, w, h, i, best) ==
    IF i > Len(free) THEN best
    ELSE IF /\ Fits(free[i], w, h)
            /\ \/ best = 0
               \/ shortSideFit(free[i], w, h) < shortSideFit(free[best], w, h)
         THEN searchFrom(free, w, h, i + 1, i)
         ELSE searchFrom(free, w, h, i + 1, best)

\* bestIndex after the search loop of insert, 0 when bestRect is null
bestIndex(free, w, h) == searchFrom(free, w, h, 1, 0)

\* insert recording the index of the chosen rectangle as the placement's id
insertIdFromIndex(pk, width, height, id) ==
    LET w == width + pk.spacing
        h == height + pk.spacing
        Place(bi) ==
            IF bi = 0
            THEN [ ok |-> FALSE, packer |-> pk,
                   placement |-> [id |-> id, x |-> 0, y |-> 0,
                                  width |-> 0, height |-> 0] ]
            ELSE [ ok |-> TRUE,
                   packer |-> [pk EXCEPT !.freeRectangles =
                                  splitFreeNode(pk.freeRectangles,
                                                pk.freeRectangles[bi],
                                                w, h, bi)],
                   placement |-> [id |-> bi,
                                  x |-> pk.freeRectangles[bi].x,
                                  y |-> pk.freeRectangles[bi].y,
                                  width |-> width, height |-> height] ]
    IN  Const(bestIndex(pk.freeRectangles, w, h), Place)

\* insert running the splice with bestIndex = -1 when nothing fits:
\* splice(-1, 1) drops the last free rectangle
insertSplicesOnFailure(pk, width, height, id) ==
    LET w == width + pk.spacing
        h == height + pk.spacing
        Place(bi) ==
            IF bi = 0
            THEN [ ok |-> FALSE,
                   packer |-> [pk EXCEPT !.freeRectangles =
                                  SubSeq(pk.freeRectangles, 1,
                                         Len(pk.freeRectangles) - 1)],
                   placement |-> [id |-> id, x |-> 0, y |-> 0,
                                  width |-> 0, height |-> 0] ]
            ELSE [ ok |-> TRUE,
                   packer |-> [pk EXCEPT !.freeRectangles =
                                  splitFreeNode(pk.freeRectangles,
                                                pk.freeRectangles[bi],
                                                w, h, bi)],
                   placement |-> [id |-> id,
                                  x |-> pk.freeRectangles[bi].x,
                                  y |-> pk.freeRectangles[bi].y,
                                  width |-> width, height |-> height] ]
    IN  Const(bestIndex(pk.freeRectangles, w, h), Place)

\* insert reporting the padded footprint as the placement's width and height
insertReportsPadded(pk, width, height, id) ==
    LET w == width + pk.spacing
        h == height + pk.spacing
        Place(bi) ==
            IF bi = 0
            THEN [ ok |-> FALSE, packer |-> pk,
                   placement |-> [id |-> id, x |-> 0, y |-> 0,
                                  width |-> 0, height |-> 0] ]
            ELSE [ ok |-> TRUE,
                   packer |-> [pk EXCEPT !.freeRectangles =
                                  splitFreeNode(pk.freeRectangles,
                                                pk.freeRectangles[bi],
                                                w, h, bi)],
                   placement |-> [id |-> id,
                                  x |-> pk.freeRectangles[bi].x,
                                  y |-> pk.freeRectangles[bi].y,
                                  width |-> w, height |-> h] ]
    IN  Const(bestIndex(pk.freeRectangles, w, h), Place)

\* insert(width, height, id): ok = FALSE stands for the null return; packer
\* is the packer after the call
insert(pk, width, height, id) ==
    LET w == width + pk.spacing
        h == height + pk.spacing
        Place(bi) ==
            IF bi = 0
            THEN [ ok |-> FALSE, packer |-> pk,
                   placement |-> [id |-> id, x |-> 0, y |-> 0,
                                  width |-> 0, height |-> 0] ]
            ELSE [ ok |-> TRUE,
                   packer |-> [pk EXCEPT !.freeRectangles =
                                  splitFreeNode(pk.freeRectangles,
                                                pk.freeRectangles[bi],
                                                w, h, bi)],
                   placement |-> [id |-> id,
                                  x |-> pk.freeRectangles[bi].x,
                                  y |-> pk.freeRectangles[bi].y,
                                  width |-> width, height |-> height] ]
    IN  Const(bestIndex(pk.freeRectangles, w, h), Place)

\* ------------------------------------------------------------------------
\* NestingEngine.nest
\* ------------------------------------------------------------------------

area(item) == item.width * item.height

\* the insertion putting an item before the items of equal area
RECURSIVE InsertSortedBeforeEqual(_, _)
InsertSortedBeforeEqual(sorted, item) ==
    IF sorted = <<>> THEN <<item>>
    ELSE IF area(item) >= area(Head(sorted))
         THEN <<item>> \o sorted
         ELSE <<Head(sorted)>> \o InsertSortedBeforeEqual(Tail(sorted), item)

\* [...items].sort((a, b) => area(b) - area(a)): Array.prototype.sort is
\* stable, so items of equal area keep their input order
RECURSIVE InsertSorted(_, _)
InsertSorted(sorted, item) ==
    IF sorted = <<>> THEN <<item>>
    ELSE IF area(item) > area(Head(sorted))
         THEN <<item>> \o sorted
         ELSE <<Head(sorted)>> \o InsertSorted(Tail(sorted), item)

RECURSIVE sortItems(_)
sortItems(list) ==
    IF list = <<>> THEN <<>>
    ELSE InsertSorted(sortItems(SubSeq(list, 1, Len(list) - 1)),
                      list[Len(list)])

\* the largest element of a non-empty finite set of numbers
SetMax(S) == CHOOSE m \in S : \A n \in S : m >= n

\* maxX and maxY start at 0 and take the maximum over the placements
calculateBounds(ps) ==
    [ maxX |-> SetMax({0} \cup { ps[k].x + ps[k].width : k \in 1..Len(ps) }),
      maxY |-> SetMax({0} \cup { ps[k].y + ps[k].height : k \in 1..Len(ps) }) ]

VARIABLES
    options,        \* the options object the engine was constructed from
    engine,         \* the engine nest was called on
    items,          \* the item list passed to nest
    itemsNull,      \* TRUE when nest was passed null/undefined
    cur,            \* the engine running the current pass (this)
    pc,             \* position in nest: "call", "loop", "post", "done";
                    \* "packer" when the packer is driven without nest
    sortedItems,    \* sortedItems of the current pass
    idx,            \* index into sortedItems of the next item of the loop
    packer,         \* <<>> before a packer is built, else <<the packer>>
    placements,     \* placements of the current pass
    unplacedItems,  \* unplacedItems of the current pass
    result,         \* the value nest returned, once pc = "done"
    call,           \* 1 during the first call of nest, 2 during a second
    firstResult,    \* what the first call returned, during the second
    \* AutoNestPlugin and the document it works on
    document,       \* <<>> when app.activeDocument is null, else
                    \* <<the sequence of the document's images>>
    artboard,       \* <<>> when getCurrentArtboard() gives null, else
                    \* <<[width, height]>>
    position,       \* where each image of the document is: "original",
                    \* or "nested" once a layout or an undo moved it there
    isProcessing,   \* this.isProcessing
    lastPlacements, \* <<>> for null, else <<this.lastPlacements>>
    nestButtonEnabled,  \* !nestButton.disabled
    message,        \* the text showMessage displayed last
    runs,           \* one record per call of executeNesting, in call order
    undos,          \* calls of undoLastNesting so far
    undoMoves       \* undoLastNesting calls that moved items since
                    \* lastPlacements was last stored

pluginVars == << document, artboard, position, isProcessing, lastPlacements,
                 nestButtonEnabled, message, runs, undos, undoMoves >>

vars == << options, engine, items, itemsNull, cur, pc, sortedItems, idx,
           packer, placements, unplacedItems, result, call, firstResult,
           pluginVars >>

\* layoutApplier.js lines 248-265: the plugin after construction, with no document open
NewPlugin ==
    /\ document = << >>
    /\ artboard = << >>
    /\ position = << >>
    /\ isProcessing = FALSE
    /\ lastPlacements = << >>
    /\ nestButtonEnabled = TRUE
    /\ message = ""
    /\ runs = << >>
    /\ undos = 0
    /\ undoMoves = 0

Init ==
    /\ options \in Options
    /\ engine = NewEngine(options)
    /\ itemsNull \in BOOLEAN
    /\ items \in IF itemsNull THEN { <<>> } ELSE ItemLists(MaxItems)
    /\ cur = engine
    /\ pc = "call"
    /\ sortedItems = <<>>
    /\ idx = 1
    /\ packer = <<>>
    /\ placements = <<>>
    /\ unplacedItems = <<>>
    /\ result = <<>>
    /\ call = 1
    /\ firstResult = <<>>
    /\ NewPlugin

\* the guard without the test for an absent list
isEmptyInputNoNullTest(isNull, list) == ~isNull /\ Len(list) = 0

\* line 20: the guard  !items || items.length === 0
isEmptyInput(isNull, list) == isNull \/ Len(list) = 0

\* line 20: if (!items || items.length === 0) return [];
NestEmpty ==
    /\ pc = "call"
    /\ isEmptyInput(itemsNull, items)
    /\ result' = <<>>
    /\ pc' = "done"
    /\ UNCHANGED << pluginVars, call, firstResult, options, engine, items, itemsNull, cur, sortedItems, idx,
                    packer, placements, unplacedItems >>

\* lines 22-35: sort a copy, build the packer, start with empty lists
NestStart ==
    /\ pc = "call"
    /\ ~isEmptyInput(itemsNull, items)
    /\ sortedItems' = sortItems(items)
    /\ packer' = << NewPacker(cur.targetWidth, cur.targetHeight, cur.spacing) >>
    /\ placements' = <<>>
    /\ unplacedItems' = <<>>
    /\ idx' = 1
    /\ pc' = "loop"
    /\ UNCHANGED << pluginVars, call, firstResult, options, engine, items, itemsNull, cur, result >>

\* the loop body trying the rotated insert whatever allowRotation says
tryItemIgnoresFlag(pk, item, allowRotation) ==
    LET \* lines 53-57: { ...placement, originalItem, rotated }
        Pushed(r, rotated) ==
            [ placed |-> TRUE, packer |-> r.packer,
              placement |-> r.placement @@
                            [ originalItem |-> item.originalItem,
                              rotated |-> rotated ] ]
        \* the item is not placed; after is the packer after the inserts
        Unplaced(after) ==
            [ placed |-> FALSE, packer |-> after,
              placement |-> [ id |-> item.id, x |-> 0, y |-> 0,
                              width |-> 0, height |-> 0,
                              originalItem |-> item.originalItem,
                              rotated |-> FALSE ] ]
        Rotated(second) ==
            IF second.ok THEN Pushed(second, TRUE)
            ELSE Unplaced(second.packer)
        Unrotated(first) ==
            IF first.ok THEN Pushed(first, FALSE)
            ELSE IF item.width # item.height
            THEN Const(insert(first.packer, item.height, item.width,
                              item.id), Rotated)
            ELSE Unplaced(first.packer)
    IN  Const(insert(pk, item.width, item.height, item.id), Unrotated)

\* lines 39-60: the outcome of one loop iteration for item on packer pk:
\* placed = FALSE when the item goes to unplacedItems
tryItem(pk, item, allowRotation) ==
    LET \* lines 53-57: { ...placement, originalItem, rotated }
        Pushed(r, rotated) ==
            [ placed |-> TRUE, packer |-> r.packer,
              placement |-> r.placement @@
                            [ originalItem |-> item.originalItem,
                              rotated |-> rotated ] ]
        \* the item is not placed; after is the packer after the inserts
        Unplaced(after) ==
            [ placed |-> FALSE, packer |-> after,
              placement |-> [ id |-> item.id, x |-> 0, y |-> 0,
                              width |-> 0, height |-> 0,
                              originalItem |-> item.originalItem,
                              rotated |-> FALSE ] ]
        Rotated(second) ==
            IF second.ok THEN Pushed(second, TRUE)
            ELSE Unplaced(second.packer)
        Unrotated(first) ==
            IF first.ok THEN Pushed(first, FALSE)
            ELSE IF allowRotation /\ item.width # item.height
            THEN Const(insert(first.packer, item.height, item.width,
                              item.id), Rotated)
            ELSE Unplaced(first.packer)
    IN  Const(insert(pk, item.width, item.height, item.id), Unrotated)

\* lines 38-61: one iteration of  for (const item of sortedItems)
TryItem ==
    /\ pc = "loop"
    /\ idx <= Len(sortedItems)
    /\ \E r \in { tryItem(packer[1], sortedItems[idx], cur.allowRotation) } :
           /\ packer' = << r.packer >>
           /\ placements' = IF r.placed THEN Append(placements, r.placement)
                            ELSE placements
           /\ unplacedItems' = IF r.placed THEN unplacedItems
                               ELSE Append(unplacedItems, sortedItems[idx])
    /\ idx' = idx + 1
    /\ UNCHANGED << pluginVars, call, firstResult, options, engine, items, itemsNull, cur, pc, sortedItems,
                    result >>

\* the for loop is exhausted
LoopEnd ==
    /\ pc = "loop"
    /\ idx > Len(sortedItems)
    /\ pc' = "post"
    /\ UNCHANGED << pluginVars, call, firstResult, options, engine, items, itemsNull, cur, sortedItems, idx,
                    packer, placements, unplacedItems, result >>

\* the retry engine sized by the bounds alone, without Math.max against the
\* current target
expandedEngineBoundsOnly(eng, ps) ==
    LET bounds == calculateBounds(ps)
        expandedWidth  == bounds.maxX + ExpandMargin
        expandedHeight == bounds.maxY + ExpandMargin
    IN  NewEngine([ spacing       |-> << eng.spacing >>,
                    allowRotation |-> << eng.allowRotation >>,
                    targetWidth   |-> << expandedWidth >>,
                    targetHeight  |-> << expandedHeight >> ])

\* lines 65-75: the engine the retry runs in
expandedEngine(eng, ps) ==
    LET bounds == calculateBounds(ps)
        expandedWidth  == Max(eng.targetWidth, bounds.maxX + ExpandMargin)
        expandedHeight == Max(eng.targetHeight, bounds.maxY + ExpandMargin)
    IN  NewEngine([ spacing       |-> << eng.spacing >>,
                    allowRotation |-> << eng.allowRotation >>,
                    targetWidth   |-> << expandedWidth >>,
                    targetHeight  |-> << expandedHeight >> ])

\* the guard that never asks for a retry
shouldExpandNever(unplaced, placed) == FALSE

\* the guard without the test that something was placed
shouldExpandAnyUnplaced(unplaced, placed) == Len(unplaced) > 0

\* line 64: the guard  unplacedItems.length > 0 && placements.length > 0
shouldExpand(unplaced, placed) == Len(unplaced) > 0 /\ Len(placed) > 0

\* the retry written as  this.targetWidth = expandedWidth; ... this.nest(items)
ExpandInPlace ==
    /\ pc = "post"
    /\ Len(unplacedItems) > 0 /\ Len(placements) > 0
    /\ cur' = expandedEngine(cur, placements)
    /\ engine' = cur'
    /\ pc' = "call"
    /\ UNCHANGED << pluginVars, call, firstResult, options, items, itemsNull, sortedItems,
                    idx, packer, placements, unplacedItems, result >>

\* lines 64-78: return expandedEngine.nest(items)
Expand ==
    /\ pc = "post"
    /\ shouldExpand(unplacedItems, placements)
    /\ cur' = expandedEngine(cur, placements)
    /\ pc' = "call"
    /\ UNCHANGED << pluginVars, call, firstResult, options, engine, items, itemsNull, sortedItems, idx,
                    packer, placements, unplacedItems, result >>

\* line 80: return placements
Return ==
    /\ pc = "post"
    /\ ~shouldExpand(unplacedItems, placements)
    /\ result' = placements
    /\ pc' = "done"
    /\ UNCHANGED << pluginVars, call, firstResult, options, engine, items, itemsNull, cur, sortedItems, idx,
                    packer, placements, unplacedItems >>

Next ==
    \/ NestEmpty
    \/ NestStart
    \/ TryItem
    \/ LoopEnd
    \/ Expand
    \/ Return

Spec == Init /\ [][Next]_vars

\* nest runs synchronously to completion: every enabled step is taken
FairSpec == Spec /\ WF_vars(Next)

\* the caller calls nest a second time, on the same engine with the same
\* item list, after the first call returned
CallAgain ==
    /\ pc = "done"
    /\ call = 1
    /\ call' = 2
    /\ firstResult' = result
    /\ result' = <<>>
    /\ cur' = engine
    /\ pc' = "call"
    /\ UNCHANGED << pluginVars, options, engine, items, itemsNull,
                    sortedItems, idx, packer, placements, unplacedItems >>

\* a GuillouinePacker of its own, before any insert
PackerInit ==
    /\ options = [ spacing |-> << >>, allowRotation |-> << >>,
                   targetWidth |-> << >>, targetHeight |-> << >> ]
    /\ engine = NewEngine(options)
    /\ itemsNull = FALSE
    /\ items = << >>
    /\ cur = engine
    /\ pc = "packer"
    /\ sortedItems = << >>
    /\ idx = 1
    /\ \E width \in PackerSizes, height \in PackerSizes,
          spacing \in PackerSpacings :
           packer = << NewPacker(width, height, spacing) >>
    /\ placements = << >>
    /\ unplacedItems = << >>
    /\ result = << >>
    /\ call = 1
    /\ firstResult = << >>
    /\ NewPlugin

\* packer.insert(width, height, id) called by any caller, in any order of
\* sizes; placements collects the placements it returned
PackerInsert ==
    /\ pc = "packer"
    /\ Len(placements) < MaxInserts
    /\ \E shape \in Shapes, swap \in BOOLEAN :
           \E r \in { insert(packer[1],
                             IF swap THEN shape[2] ELSE shape[1],
                             IF swap THEN shape[1] ELSE shape[2],
                             Len(placements) + 1) } :
               /\ packer' = << r.packer >>
               /\ placements' = IF r.ok THEN Append(placements, r.placement)
                                ELSE placements
    /\ UNCHANGED << pluginVars, call, firstResult, options, engine, items, itemsNull,
                    cur, pc, sortedItems, idx, unplacedItems, result >>

NextPacker ==
    \/ PackerInsert

PackerSpec == PackerInit /\ [][NextPacker]_vars

\* ------------------------------------------------------------------------
\* nest as its caller sees it: one synchronous call
\* ------------------------------------------------------------------------

\* lines 38-61: the for loop from the k-th sorted item on; st holds the
\* packer, placements and unplacedItems reached so far
RECURSIVE nestLoop(_, _, _, _)
nestLoop(st, sorted, k, allowRotation) ==
    IF k > Len(sorted) THEN st
    ELSE LET Step(r) ==
                 nestLoop([ packer |-> r.packer,
                            placements |->
                                IF r.placed
                                THEN Append(st.placements, r.placement)
                                ELSE st.placements,
                            unplacedItems |->
                                IF r.placed THEN st.unplacedItems
                                ELSE Append(st.unplacedItems, sorted[k]) ],
                          sorted, k + 1, allowRotation)
         IN  Const(tryItem(st.packer, sorted[k], allowRotation), Step)

\* lines 22-61: one pass of engine eng over list
nestPass(eng, list) ==
    nestLoop([ packer |-> NewPacker(eng.targetWidth, eng.targetHeight,
                                    eng.spacing),
               placements |-> << >>,
               unplacedItems |-> << >> ],
             sortItems(list), 1, eng.allowRotation)

\* lines 19-80: nest(list) on engine eng.  returns = FALSE when the retry of
\* lines 64-78 runs on an engine equal to eng: the same call is then made
\* again and again and nest never returns
RECURSIVE nest(_, _)
nest(eng, list) ==
    IF isEmptyInput(FALSE, list)
    THEN [ returns |-> TRUE, placements |-> << >> ]
    ELSE LET After(pass) ==
                 IF shouldExpand(pass.unplacedItems, pass.placements)
                 THEN LET retry == expandedEngine(eng, pass.placements)
                      IN  IF retry = eng
                          THEN [ returns |-> FALSE, placements |-> << >> ]
                          ELSE nest(retry, list)
                 ELSE [ returns |-> TRUE, placements |-> pass.placements ]
         IN  Const(nestPass(eng, list), After)

NextTwoCalls ==
    \/ Next
    \/ CallAgain

TwoCallSpec == Init /\ [][NextTwoCalls]_vars

\* ------------------------------------------------------------------------
\* Properties
\* ------------------------------------------------------------------------

\* the spacing the options object asks for: the supplied value, 10 when the
\* key is absent
ConfiguredSpacing ==
    IF options.spacing = <<>> THEN DefaultSpacing ELSE options.spacing[1]

\* the half-open rectangles [ax, ax+aw) x [ay, ay+ah) and
\* [bx, bx+bw) x [by, by+bh) have no point in common
Disjoint(ax, ay, aw, ah, bx, by, bw, bh) ==
    \/ ax + aw <= bx
    \/ bx + bw <= ax
    \/ ay + ah <= by
    \/ by + bh <= ay

PaddedDisjoint(p, q, s) ==
    Disjoint(p.x, p.y, p.width + s, p.height + s,
             q.x, q.y, q.width + s, q.height + s)

Returned == pc = "done"

\* the pass just finished placed some items and left some unplaced
PartialPass ==
    pc = "post" /\ Len(placements) > 0 /\ Len(unplacedItems) > 0

InputIds == { items[k].id : k \in 1..Len(items) }
ResultIds == { result[k].id : k \in 1..Len(result) }

\* C1: in a returned result no two distinct placements overlap, even when
\* each is enlarged by the spacing (the configured one and the one the
\* engine packs with) to its padded footprint.
C1_NoOverlap ==
    Returned =>
        \A a, b \in 1..Len(result) :
            a # b => /\ PaddedDisjoint(result[a], result[b], ConfiguredSpacing)
                     /\ PaddedDisjoint(result[a], result[b], cur.spacing)

\* C1 witness: a returned result with two placements side by side, the
\* second starting exactly where the padded footprint of the first ends
C1_Witness ==
    /\ Returned
    /\ \E a, b \in 1..Len(result) :
           /\ a # b
           /\ result[b].y = result[a].y
           /\ result[b].x = result[a].x + result[a].width + cur.spacing

\* C2: nest terminates: every call eventually returns a result.
C2_Terminates == <>Returned

\* C3: whenever nest recurses into an expanded engine, the expanded engine
\* has a strictly larger targetWidth or a strictly larger targetHeight.
C3_StrictGrowth ==
    [][ (pc = "post" /\ pc' = "call") =>
            \/ cur'.targetWidth > cur.targetWidth
            \/ cur'.targetHeight > cur.targetHeight ]_vars

\* the two 600x600 items of the scenario, target 1000x1000, rotation off
TwoSquaresScenario ==
    /\ ~itemsNull
    /\ Len(items) = 2
    /\ \A k \in 1..2 : items[k].width = 600 /\ items[k].height = 600
    /\ items[1].id # items[2].id
    /\ engine.targetWidth = 1000 /\ engine.targetHeight = 1000
    /\ ~engine.allowRotation

\* C4: a pass that places some items and leaves some unplaced leads to a
\* returned result holding the id of every input item; for the two 600x600
\* items the result comes from a region at least 1200 wide or 1200 tall.
C4_PartialLeadsToAll ==
    PartialPass ~>
        ( /\ Returned
          /\ InputIds \subseteq ResultIds
          /\ TwoSquaresScenario =>
                 (cur.targetWidth >= 1200 \/ cur.targetHeight >= 1200) )

\* C5: every placement of a returned result lies inside the target region
\* of the engine whose pass produced it.
C5_Containment ==
    Returned =>
        \A k \in 1..Len(result) :
            /\ result[k].x >= 0
            /\ result[k].y >= 0
            /\ result[k].x + result[k].width <= cur.targetWidth
            /\ result[k].y + result[k].height <= cur.targetHeight

\* C5 witness: a result returned by an expanded engine with a placement
\* that reaches beyond the target the caller configured
C5_Witness ==
    /\ Returned
    /\ \E k \in 1..Len(result) :
           \/ result[k].x + result[k].width > engine.targetWidth
           \/ result[k].y + result[k].height > engine.targetHeight

\* C6: the packer works with exactly the spacing supplied at construction,
\* 0 included, and with 10 only when none is supplied.
C6_SpacingAsSupplied ==
    packer # <<>> => packer[1].spacing = ConfiguredSpacing

\* C7: every id of a returned result is the id of an input item, and when
\* the input ids are pairwise distinct no id occurs twice in the result.
C7_Conservation ==
    Returned =>
        /\ ResultIds \subseteq InputIds
        /\ (\A a, b \in 1..Len(items) : a # b => items[a].id # items[b].id)
               => \A a, b \in 1..Len(result) :
                      a # b => result[a].id # result[b].id

\* C7 witness: three items with distinct ids, all of them in the result
C7_Witness ==
    /\ Returned
    /\ Cardinality(InputIds) = 3
    /\ Len(result) = 3

\* C8: a placement appended by a loop iteration is rotated only if
\* allowRotation is enabled, the item is not square and its unrotated
\* insert fails on the packer as it was; it then has the item's swapped
\* dimensions.  Every other placement is unrotated with the item's own
\* dimensions.
C8_RotationLegality ==
    [][ (pc = "loop" /\ Len(placements') > Len(placements)) =>
            LET p    == placements'[Len(placements')]
                item == sortedItems[idx]
            IN  IF p.rotated
                THEN /\ cur.allowRotation
                     /\ options.allowRotation = << TRUE >>
                     /\ item.width # item.height
                     /\ ~insert(packer[1], item.width, item.height,
                                item.id).ok
                     /\ p.width = item.height
                     /\ p.height = item.width
                ELSE /\ p.width = item.width
                     /\ p.height = item.height ]_vars

\* C8 witness: a returned result with a rotated placement
C8_Witness ==
    /\ Returned
    /\ \E k \in 1..Len(result) : result[k].rotated

\* C9: a pass that placed nothing ends the call: no retry, no expansion,
\* and the empty sequence is returned.
C9_NothingPlacedReturnsEmpty ==
    [][ (pc = "post" /\ Len(placements) = 0) =>
            /\ pc' = "done"
            /\ result' = <<>>
            /\ cur' = cur ]_vars

\* C9 witness: one 2000x2000 item against the 1000x1000 target was tried,
\* nothing was placed, and the call returned in the engine it started in
C9_Witness ==
    /\ Returned
    /\ Len(items) = 1
    /\ items[1].width = 2000 /\ items[1].height = 2000
    /\ engine.targetWidth = 1000 /\ engine.targetHeight = 1000
    /\ Len(unplacedItems) = 1
    /\ result = <<>>
    /\ cur = engine

\* C10: with an absent or empty item list nest never builds a packer, never
\* enters the loop or the retry, and what it returns is the empty sequence.
C10_EmptyInput ==
    (itemsNull \/ Len(items) = 0) =>
        /\ packer = <<>>
        /\ pc \in { "call", "done" }
        /\ cur = engine
        /\ result = <<>>

\* C10 witness: nest returned for an absent list
C10_Witness ==
    /\ Returned
    /\ itemsNull
    /\ result = <<>>

\* C11: a returned result lists its placements by non-increasing item area
\* (width*height), placements of equal area in the input order of their
\* items (the payload originalItem is the input position).
C11_ResultInSortedOrder ==
    Returned =>
        \A a, b \in 1..Len(result) :
            a < b =>
                /\ area(result[a]) >= area(result[b])
                /\ area(result[a]) = area(result[b])
                       => result[a].originalItem < result[b].originalItem

\* C11 witness: a returned result that is not in input order and that holds
\* two placements of equal area
C11_Witness ==
    /\ Returned
    /\ \E a, b \in 1..Len(result) :
           a < b /\ result[a].originalItem > result[b].originalItem
    /\ \E a, b \in 1..Len(result) :
           a < b /\ area(result[a]) = area(result[b])

\* C12: the width and height of every placement of a returned result are
\* the item's own (swapped when rotated), without the spacing margin, while
\* the packer keeps the padded footprint width+spacing by height+spacing
\* inside the bin and out of every free rectangle.
C12_UnpaddedDimensions ==
    Returned =>
        \A k \in 1..Len(result) :
            LET p    == result[k]
                item == items[p.originalItem]
                s    == packer[1].spacing
            IN  /\ IF p.rotated
                   THEN p.width = item.height /\ p.height = item.width
                   ELSE p.width = item.width /\ p.height = item.height
                /\ p.x + p.width + s <= packer[1].binWidth
                /\ p.y + p.height + s <= packer[1].binHeight
                /\ \A j \in 1..Len(packer[1].freeRectangles) :
                       LET f == packer[1].freeRectangles[j]
                       IN  Disjoint(p.x, p.y, p.width + s, p.height + s,
                                    f.x, f.y, f.width, f.height)

\* C12 witness: a returned result packed with spacing 20 that holds a
\* rotated and an unrotated placement, with free rectangles left
C12_Witness ==
    /\ Returned
    /\ packer # <<>>
    /\ packer[1].spacing = 20
    /\ Len(packer[1].freeRectangles) > 0
    /\ \E a, b \in 1..Len(result) : result[a].rotated /\ ~result[b].rotated

\* C13: a second call of nest on the same engine with the same item list
\* returns the placement sequence the first call returned, and no step of
\* nest changes the caller's item list or the fields of the engine it was
\* called on.
C13_DeterministicNoSideEffects ==
    /\ [](call = 2 /\ Returned => result = firstResult)
    /\ [][ /\ items' = items
           /\ itemsNull' = itemsNull
           /\ engine' = engine
           /\ engine = NewEngine(options) ]_vars

\* C13 witness: the second call returned the placements of the first, both
\* produced in an expanded engine from a list the sort reorders
C13_Witness ==
    /\ call = 2
    /\ Returned
    /\ Len(result) >= 2
    /\ result = firstResult
    /\ cur # engine
    /\ sortedItems # items

\* no free rectangle of packer pk takes the padded footprint of (width, height)
NothingFits(pk, width, height) ==
    \A k \in 1..Len(pk.freeRectangles) :
        \/ width + pk.spacing > pk.freeRectangles[k].width
        \/ height + pk.spacing > pk.freeRectangles[k].height

\* C14: on the packer of a loop iteration, an insert of the item (in either
\* orientation) that no free rectangle fits returns null and leaves the
\* packer as it was; and an iteration that sends its item to unplacedItems
\* leaves the packer and the placements as they were.
C14_FailedInsertLeavesPacker ==
    [][ (pc = "loop" /\ idx <= Len(sortedItems)) =>
            LET pk   == packer[1]
                item == sortedItems[idx]
            IN  /\ NothingFits(pk, item.width, item.height) =>
                       /\ ~insert(pk, item.width, item.height, item.id).ok
                       /\ insert(pk, item.width, item.height,
                                 item.id).packer = pk
                /\ NothingFits(pk, item.height, item.width) =>
                       /\ ~insert(pk, item.height, item.width, item.id).ok
                       /\ insert(pk, item.height, item.width,
                                 item.id).packer = pk
                /\ Len(unplacedItems') > Len(unplacedItems) =>
                       /\ packer' = packer
                       /\ placements' = placements ]_vars

\* C14 witness: an item failed (rotation allowed, so in both orientations)
\* and an item tried after it was placed
C14_Witness ==
    /\ pc = "post"
    /\ cur.allowRotation
    /\ \E u \in 1..Len(unplacedItems), p \in 1..Len(placements) :
           \E a, b \in 1..Len(sortedItems) :
               /\ a < b
               /\ sortedItems[a].originalItem = unplacedItems[u].originalItem
               /\ sortedItems[a].width # sortedItems[a].height
               /\ sortedItems[b].originalItem = placements[p].originalItem

\* the indices of the free rectangles of pk that take the footprint (fw, fh)
Candidates(pk, fw, fh) ==
    { k \in 1..Len(pk.freeRectangles) :
          fw <= pk.freeRectangles[k].width /\ fh <= pk.freeRectangles[k].height }

\* the score of free rectangle k of pk for the footprint (fw, fh)
Score(pk, k, fw, fh) ==
    LET lh == pk.freeRectangles[k].width - fw
        lv == pk.freeRectangles[k].height - fh
    IN  IF lh <= lv THEN lh ELSE lv

\* free rectangle k of pk is the earliest of those with the smallest score
EarliestTightest(pk, k, fw, fh) ==
    /\ k \in Candidates(pk, fw, fh)
    /\ \A j \in Candidates(pk, fw, fh) :
           /\ Score(pk, k, fw, fh) <= Score(pk, j, fw, fh)
           /\ Score(pk, k, fw, fh) = Score(pk, j, fw, fh) => k <= j

\* C15: a loop iteration that pushes a placement puts it at the corner
\* (x, y) of the free rectangle that, among those the padded footprint of
\* the placement fits into, has the smallest score
\* min(rect.w - footprint.w, rect.h - footprint.h), the earliest in the list
\* among those of equal smallest score.
C15_BestShortSideFit ==
    [][ (pc = "loop" /\ Len(placements') > Len(placements)) =>
            LET pk == packer[1]
                p  == placements'[Len(placements')]
                fw == p.width + pk.spacing
                fh == p.height + pk.spacing
            IN  \E k \in 1..Len(pk.freeRectangles) :
                    /\ EarliestTightest(pk, k, fw, fh)
                    /\ p.x = pk.freeRectangles[k].x
                    /\ p.y = pk.freeRectangles[k].y ]_vars

\* C15 witness: the last placement went into a rectangle whose score (the
\* smaller of the remainders left to its right and below it) was equalled
\* by another rectangle, one that is still free
C15_Witness ==
    /\ pc = "loop"
    /\ Len(placements) >= 2
    /\ LET pk == packer[1]
           p  == placements[Len(placements)]
           fw == p.width + pk.spacing
           fh == p.height + pk.spacing
           R  == { k \in 1..Len(pk.freeRectangles) :
                     /\ pk.freeRectangles[k].x = p.x + fw
                     /\ pk.freeRectangles[k].y = p.y }
           B  == { k \in 1..Len(pk.freeRectangles) :
                     /\ pk.freeRectangles[k].x = p.x
                     /\ pk.freeRectangles[k].y = p.y + fh }
       IN  /\ R # {} /\ B # {}
           /\ \E r \in R, b \in B, j \in Candidates(pk, fw, fh) \ (R \cup B) :
                  Score(pk, j, fw, fh) =
                      Min(pk.freeRectangles[r].width,
                          pk.freeRectangles[b].height)

\* C16: a loop iteration that pushes a placement takes the free rectangle r
\* at the placement's corner out of the list and appends the right remainder
\* {x+fw, y, w-fw, h} exactly when w-fw > 0 and the bottom remainder
\* {x, y+fh, fw, h-fh} exactly when h-fh > 0, (fw, fh) being the padded
\* footprint; the other free rectangles stay as they were, in their order.
C16_SplitExact ==
    [][ (pc = "loop" /\ Len(placements') > Len(placements)) =>
            LET free == packer[1].freeRectangles
                p    == placements'[Len(placements')]
                fw   == p.width + packer[1].spacing
                fh   == p.height + packer[1].spacing
                k    == CHOOSE i \in 1..Len(free) :
                            free[i].x = p.x /\ free[i].y = p.y
                r    == free[k]
                others == [ i \in 1..(Len(free) - 1) |->
                              IF i < k THEN free[i] ELSE free[i + 1] ]
                right  == IF r.width - fw > 0
                          THEN << [ x |-> r.x + fw, y |-> r.y,
                                    width |-> r.width - fw,
                                    height |-> r.height ] >>
                          ELSE << >>
                bottom == IF r.height - fh > 0
                          THEN << [ x |-> r.x, y |-> r.y + fh,
                                    width |-> fw,
                                    height |-> r.height - fh ] >>
                          ELSE << >>
            IN  packer'[1].freeRectangles = others \o right \o bottom ]_vars

\* C16 witness: the last placement filled the whole width of its free
\* rectangle, which left a bottom remainder and no right remainder, beside
\* free rectangles that were not touched
C16_Witness ==
    /\ pc = "loop"
    /\ Len(placements) >= 2
    /\ LET free == packer[1].freeRectangles
           p    == placements[Len(placements)]
           fw   == p.width + packer[1].spacing
           fh   == p.height + packer[1].spacing
       IN  /\ Len(free) >= 2
           /\ free[Len(free)].x = p.x
           /\ free[Len(free)].y = p.y + fh
           /\ free[Len(free)].width = fw
           /\ \A i \in 1..Len(free) :
                  ~(free[i].x = p.x + fw /\ free[i].y = p.y)

\* v is the larger of a and b
IsLarger(v, a, b) == (v = a \/ v = b) /\ v >= a /\ v >= b

\* C17: after a pass with placed and unplaced items nest calls itself on the
\* unchanged item list in an engine with the same spacing and allowRotation
\* and the target (max(targetWidth, maxX + 100), max(targetHeight,
\* maxY + 100)), maxX / maxY being the largest x+width / y+height of the
\* pass's placements; the call starts from the whole sorted list, a fresh
\* packer and no placements; and no step lowers a target dimension.
C17_RetryFromScratchExpanded ==
    [][ /\ PartialPass =>
               \E a, b \in 1..Len(placements) :
                   /\ \A k \in 1..Len(placements) :
                          /\ placements[a].x + placements[a].width
                                 >= placements[k].x + placements[k].width
                          /\ placements[b].y + placements[b].height
                                 >= placements[k].y + placements[k].height
                   /\ IsLarger(cur'.targetWidth, cur.targetWidth,
                          placements[a].x + placements[a].width + 100)
                   /\ IsLarger(cur'.targetHeight, cur.targetHeight,
                          placements[b].y + placements[b].height + 100)
                   /\ cur'.spacing = cur.spacing
                   /\ cur'.allowRotation = cur.allowRotation
                   /\ items' = items
                   /\ pc' = "call"
        /\ (pc = "call" /\ pc' = "loop") =>
               /\ placements' = << >>
               /\ unplacedItems' = << >>
               /\ Len(sortedItems') = Len(items)
               /\ { sortedItems'[k] : k \in 1..Len(items) }
                      = { items[k] : k \in 1..Len(items) }
               /\ packer'[1].spacing = cur.spacing
               /\ packer'[1].freeRectangles =
                      << [ x |-> 0, y |-> 0, width |-> cur.targetWidth,
                           height |-> cur.targetHeight ] >>
        /\ cur'.targetWidth >= cur.targetWidth
        /\ cur'.targetHeight >= cur.targetHeight ]_vars

\* C17 witness: a retry has started from scratch in an engine wider and
\* taller than the one nest was called on, the placements of the pass
\* before it discarded
C17_Witness ==
    /\ pc = "loop"
    /\ idx = 1
    /\ placements = << >>
    /\ Len(sortedItems) >= 2
    /\ cur.targetWidth > engine.targetWidth
    /\ cur.targetHeight > engine.targetHeight
    /\ cur.spacing = engine.spacing

\* the one placement the claim gives a single item
PlacedAtOrigin(item) ==
    [ id |-> item.id, x |-> 0, y |-> 0, width |-> item.width,
      height |-> item.height, originalItem |-> item.originalItem,
      rotated |-> FALSE ]

\* C18: a single item whose footprint padded by the configured spacing fits
\* in the configured target is returned as the only placement, at x = 0,
\* y = 0, unrotated, with its own width and height.
C18_SingleItemAtOrigin ==
    ( /\ Returned
      /\ Len(items) = 1
      /\ items[1].width + ConfiguredSpacing <= engine.targetWidth
      /\ items[1].height + ConfiguredSpacing <= engine.targetHeight )
        => result = << PlacedAtOrigin(items[1]) >>

\* the same with the spacing the engine holds after construction
SingleItemAtOriginEngineSpacing ==
    ( /\ Returned
      /\ Len(items) = 1
      /\ items[1].width + engine.spacing <= engine.targetWidth
      /\ items[1].height + engine.spacing <= engine.targetHeight )
        => result = << PlacedAtOrigin(items[1]) >>

\* sum of a sequence of numbers
RECURSIVE Sum(_)
Sum(s) == IF s = << >> THEN 0 ELSE Head(s) + Sum(Tail(s))

\* C19: after any sequence of inserts on a packer, its free rectangles have
\* positive width and height, overlap neither each other nor the padded
\* footprint of a placed item, cover together with those footprints an area
\* of binWidth*binHeight, and mergeRectangles takes none of them away.
C19_FreeRectanglesTile ==
    packer # << >> =>
        LET pk   == packer[1]
            free == pk.freeRectangles
            s    == pk.spacing
            freeAreas == [ i \in 1..Len(free) |->
                             free[i].width * free[i].height ]
            paddedAreas == [ k \in 1..Len(placements) |->
                               (placements[k].width + s)
                                   * (placements[k].height + s) ]
        IN  /\ \A i \in 1..Len(free) :
                   /\ free[i].width > 0 /\ free[i].height > 0
                   /\ free[i].x >= 0 /\ free[i].y >= 0
                   /\ free[i].x + free[i].width <= pk.binWidth
                   /\ free[i].y + free[i].height <= pk.binHeight
            /\ \A i, j \in 1..Len(free) :
                   i # j => Disjoint(free[i].x, free[i].y,
                                     free[i].width, free[i].height,
                                     free[j].x, free[j].y,
                                     free[j].width, free[j].height)
            /\ \A i \in 1..Len(free), k \in 1..Len(placements) :
                   Disjoint(free[i].x, free[i].y,
                            free[i].width, free[i].height,
                            placements[k].x, placements[k].y,
                            placements[k].width + s, placements[k].height + s)
            /\ \A k, l \in 1..Len(placements) :
                   k # l => PaddedDisjoint(placements[k], placements[l], s)
            /\ Sum(freeAreas) + Sum(paddedAreas)
                   = pk.binWidth * pk.binHeight
            /\ mergeRectangles(free) = free

\* C19 witness: three inserts succeeded on a packer with spacing 0 and left
\* at least three free rectangles
C19_Witness ==
    /\ pc = "packer"
    /\ packer[1].spacing = 0
    /\ Len(placements) = 3
    /\ Len(packer[1].freeRectangles) >= 3

\* C20: nest never returns a partial result: a returned array is empty or
\* holds exactly one placement for every input item.
C20_AllOrNothing ==
    Returned =>
        \/ result = << >>
        \/ /\ Len(result) = Len(items)
           /\ \A k \in 1..Len(items) :
                  Cardinality({ i \in 1..Len(result) :
                                    result[i].originalItem = k }) = 1

\* C20 witness: a pass left an item unplaced, the retry on a larger target
\* placed all of them, and that complete result is what nest returned
C20_Witness ==
    /\ Returned
    /\ Len(items) >= 2
    /\ cur.targetWidth > engine.targetWidth
    /\ Len(result) = Len(items)

\* the function nest gives what the steps of nest give
NestFunctionAgrees ==
    /\ (Returned /\ ~itemsNull) =>
           nest(engine, items) = [ returns |-> TRUE, placements |-> result ]
    /\ (pc = "post" /\ shouldExpand(unplacedItems, placements)
            /\ expandedEngine(cur, placements) = cur) =>
           ~nest(engine, items).returns

\* ------------------------------------------------------------------------
\* AutoNestPlugin (layoutApplier.js, lines 247-659)
\* ------------------------------------------------------------------------

nestVars == << options, engine, items, itemsNull, cur, pc, sortedItems, idx,
               packer, placements, unplacedItems, result, call, firstResult >>

\* lines 253-260: this.settings of a new plugin
Settings ==
    [ spacing |-> 10, allowRotation |-> FALSE, selectedOnly |-> FALSE,
      artboardIndex |-> 0, targetWidth |-> 2000, targetHeight |-> 2000 ]

\* the images a document is made of; a locked image fails validateImages
ImageKinds ==
    { [ width |-> 100, height |-> 50, locked |-> FALSE ],
      [ width |-> 600, height |-> 600, locked |-> FALSE ],
      [ width |-> 2000, height |-> 2000, locked |-> FALSE ],
      [ width |-> 100, height |-> 50, locked |-> TRUE ] }

Documents == UNION { [ 1..n -> ImageKinds ] : n \in 0..MaxImages }

\* what getCurrentArtboard returns: null or the artboard of the document
ArtboardOpts == { << >>, << [ width |-> 1000, height |-> 1000 ] >> }

\* a plugin after construction, on no document or on one of Documents
PluginInit ==
    /\ options = [ spacing |-> << >>, allowRotation |-> << >>,
                   targetWidth |-> << >>, targetHeight |-> << >> ]
    /\ engine = NewEngine(options)
    /\ itemsNull = FALSE
    /\ items = << >>
    /\ cur = engine
    /\ pc = "plugin"
    /\ sortedItems = << >>
    /\ idx = 1
    /\ packer = << >>
    /\ placements = << >>
    /\ unplacedItems = << >>
    /\ result = << >>
    /\ call = 1
    /\ firstResult = << >>
    /\ document \in { << >> } \cup { << d >> : d \in Documents }
    /\ artboard \in IF document = << >> THEN { << >> } ELSE ArtboardOpts
    /\ position = IF document = << >> THEN << >>
                  ELSE [ k \in 1..Len(document[1]) |-> "original" ]
    /\ isProcessing = FALSE
    /\ lastPlacements = << >>
    /\ nestButtonEnabled = TRUE
    /\ message = ""
    /\ runs = << >>
    /\ undos = 0
    /\ undoMoves = 0

\* imageCollector lines 103-150: the data of the k-th image of the document;
\* left stands for its current left and top
extractImageData(k) ==
    [ id |-> k, width |-> document[1][k].width,
      height |-> document[1][k].height, locked |-> document[1][k].locked,
      originalItem |-> k, left |-> position[k] ]

\* imageCollector lines 203-221: the valid images, in order
validImages(images) ==
    SelectSeq(images,
              LAMBDA img : img.width > 0 /\ img.height > 0 /\ ~img.locked)

\* lines 384-389: valid.map(img => ({ id, width, height, originalItem }))
toItems(valid) ==
    [ k \in 1..Len(valid) |->
        [ id |-> valid[k].id, width |-> valid[k].width,
          height |-> valid[k].height,
          originalItem |-> valid[k].originalItem ] ]

\* lines 392-402: the engine executeNesting builds
pluginEngine ==
    NewEngine([ spacing |-> << Settings.spacing >>,
                allowRotation |-> << Settings.allowRotation >>,
                targetWidth |-> << IF artboard # << >>
                                   THEN artboard[1].width
                                   ELSE Settings.targetWidth >>,
                targetHeight |-> << IF artboard # << >>
                                    THEN artboard[1].height
                                    ELSE Settings.targetHeight >> ])

\* a call of executeNesting: pc is "blocked" (returned at the guard),
\* "collect" (inside await collectImages), "apply" (inside await
\* applyLayout), "hung" (inside a nest that never returns) or "ended"
NewRun(at, failed, images, next) ==
    [ pc |-> at, failed |-> failed, images |-> images, next |-> next,
      placements |-> << >>, applyOk |-> FALSE ]

\* the script is inside a call that never returns: nothing else runs
Hung == \E r \in 1..Len(runs) : runs[r].pc = "hung"

\* the guard that lets every call through
alreadyProcessingNever(flag) == FALSE

\* line 348: the guard  if (this.isProcessing)
alreadyProcessing(flag) == flag

\* lines 347-364: executeNesting from its call to its first await.
\* collectImages has run up to the await of its first extractImageData, or
\* has thrown for want of a document
ExecuteNesting ==
    /\ pc = "plugin"
    /\ ~Hung
    /\ Len(runs) < MaxClicks
    /\ IF alreadyProcessing(isProcessing)
       THEN /\ message' = "Already processing..."
            /\ runs' = Append(runs, NewRun("blocked", FALSE, << >>, 1))
            /\ UNCHANGED << isProcessing, nestButtonEnabled >>
       ELSE /\ isProcessing' = TRUE
            /\ message' = "Collecting images..."
            /\ nestButtonEnabled' = FALSE
            /\ runs' = Append(runs,
                   IF document = << >>
                   THEN NewRun("collect", TRUE, << >>, 1)
                   ELSE IF Len(document[1]) = 0
                   THEN NewRun("collect", FALSE, << >>, 1)
                   ELSE NewRun("collect", FALSE,
                               << extractImageData(1) >>, 2))
    /\ UNCHANGED << nestVars, document, artboard, position, lastPlacements,
                    undos, undoMoves >>

\* imageCollector lines 30-46: collectImages resumes after an await, pushes
\* the image and goes on to extract the next one
CollectStep(r) ==
    /\ pc = "plugin"
    /\ ~Hung
    /\ r <= Len(runs)
    /\ runs[r].pc = "collect"
    /\ ~runs[r].failed
    /\ runs[r].next <= Len(document[1])
    /\ runs' = [ runs EXCEPT
                   ![r].images = Append(@, extractImageData(runs[r].next)),
                   ![r].next = @ + 1 ]
    /\ UNCHANGED << nestVars, document, artboard, position, isProcessing,
                    lastPlacements, nestButtonEnabled, message, undos,
                    undoMoves >>

\* lines 440-443: the finally block
Finally ==
    /\ isProcessing' = FALSE
    /\ nestButtonEnabled' = TRUE

\* lines 366-414 and 437-439: the ways the stretch from the end of
\* collectImages to the await of applyLayout can go for a run.  moved is the
\* number of placements processBatch applied before applyLayout stopped
AfterCollectOutcomes(run) ==
    LET Ended(text) ==
            [ pc |-> "ended", message |-> text, placements |-> << >>,
              applyOk |-> FALSE, moved |-> 0 ]
        valid == validImages(run.images)
        Nested(r) ==
            IF ~r.returns
            THEN \* the recursion of nest without end: a RangeError where
                 \* the stack is bounded, no return where the tail call of
                 \* line 78 reuses the frame
                 { Ended("Error: Maximum call stack size exceeded"),
                   [ pc |-> "hung", message |-> "Nesting images...",
                     placements |-> << >>, applyOk |-> FALSE, moved |-> 0 ] }
            ELSE IF Len(r.placements) = 0
            THEN { Ended("Failed to nest images") }
            ELSE { [ pc |-> "apply", message |-> "Nesting images...",
                     placements |-> r.placements, applyOk |-> TRUE,
                     moved |-> Len(r.placements) ] }
                 \cup
                 { [ pc |-> "apply", message |-> "Nesting images...",
                     placements |-> r.placements, applyOk |-> FALSE,
                     moved |-> k ] : k \in 0..(Len(r.placements) - 1) }
    IN  IF run.failed THEN { Ended("Error: No active document") }
        ELSE IF Len(run.images) = 0
        THEN { Ended("No images found to nest") }
        ELSE IF Len(valid) = 0
        THEN { Ended("No valid images to nest") }
        ELSE Const(nest(pluginEngine, toItems(valid)), Nested)

\* lines 366-414: executeNesting resumes after await collectImages and runs
\* up to its return, to the await of applyLayout, or into a nest that does
\* not return
AfterCollect(r) ==
    /\ pc = "plugin"
    /\ ~Hung
    /\ r <= Len(runs)
    /\ runs[r].pc = "collect"
    /\ IF runs[r].failed THEN TRUE
       ELSE runs[r].next > Len(document[1])
    /\ \E o \in AfterCollectOutcomes(runs[r]) :
           /\ runs' = [ runs EXCEPT ![r].pc = o.pc,
                                    ![r].placements = o.placements,
                                    ![r].applyOk = o.applyOk ]
           /\ message' = o.message
           /\ position' =
                  [ k \in DOMAIN position |->
                      IF \E i \in 1..o.moved :
                             o.placements[i].originalItem = k
                      THEN "nested" ELSE position[k] ]
           /\ IF o.pc = "ended" THEN Finally
              ELSE UNCHANGED << isProcessing, nestButtonEnabled >>
    /\ UNCHANGED << nestVars, document, artboard, lastPlacements, undos,
                    undoMoves >>

\* lines 417-424: the value stored in this.lastPlacements
storedPlacements(run) ==
    LET valid == validImages(run.images)
    IN  [ placements |-> run.placements,
          originalPositions |->
              [ k \in 1..Len(valid) |->
                  [ item |-> valid[k].originalItem,
                    left |-> valid[k].left ] ] ]

\* lines 412-444: executeNesting resumes after await applyLayout
AfterApply(r) ==
    /\ pc = "plugin"
    /\ ~Hung
    /\ r <= Len(runs)
    /\ runs[r].pc = "apply"
    /\ IF runs[r].applyOk
       THEN /\ lastPlacements' = << storedPlacements(runs[r]) >>
            /\ message' = "Successfully nested"
            /\ undoMoves' = 0
       ELSE /\ message' = "Error: applyLayout failed"
            /\ UNCHANGED << lastPlacements, undoMoves >>
    /\ Finally
    /\ runs' = [ runs EXCEPT ![r].pc = "ended" ]
    /\ UNCHANGED << nestVars, document, artboard, position, undos >>

\* undoLastNesting leaving this.lastPlacements as it is
UndoLastNestingKeeps ==
    /\ pc = "plugin"
    /\ ~Hung
    /\ undos < MaxUndos
    /\ undos' = undos + 1
    /\ IF lastPlacements = << >>
       THEN /\ message' = "Nothing to undo"
            /\ UNCHANGED << position, lastPlacements, undoMoves >>
       ELSE /\ position' =
                   [ k \in DOMAIN position |->
                       LET orig == lastPlacements[1].originalPositions
                           hits == { i \in 1..Len(orig) : orig[i].item = k }
                       IN  IF hits = { } THEN position[k]
                           ELSE orig[CHOOSE i \in hits : TRUE].left ]
            /\ message' = "Undo successful"
            /\ undoMoves' = undoMoves + 1
            /\ UNCHANGED lastPlacements
    /\ UNCHANGED << nestVars, document, artboard, isProcessing,
                    nestButtonEnabled, runs >>

\* lines 590-612: undoLastNesting.  moveItem (lines 98-115) catches what
\* translate throws, so the loop runs to its end
UndoLastNesting ==
    /\ pc = "plugin"
    /\ ~Hung
    /\ undos < MaxUndos
    /\ undos' = undos + 1
    /\ IF lastPlacements = << >>
       THEN /\ message' = "Nothing to undo"
            /\ UNCHANGED << position, lastPlacements, undoMoves >>
       ELSE /\ position' =
                   [ k \in DOMAIN position |->
                       LET orig == lastPlacements[1].originalPositions
                           hits == { i \in 1..Len(orig) : orig[i].item = k }
                       IN  IF hits = { } THEN position[k]
                           ELSE orig[CHOOSE i \in hits : TRUE].left ]
            /\ message' = "Undo successful"
            /\ lastPlacements' = << >>
            /\ undoMoves' = undoMoves + 1
    /\ UNCHANGED << nestVars, document, artboard, isProcessing,
                    nestButtonEnabled, runs >>

NextPlugin ==
    \/ ExecuteNesting
    \/ \E r \in 1..MaxClicks : CollectStep(r)
    \/ \E r \in 1..MaxClicks : AfterCollect(r)
    \/ \E r \in 1..MaxClicks : AfterApply(r)
    \/ UndoLastNesting

PluginSpec == PluginInit /\ [][NextPlugin]_vars

\* a continuation whose promise has settled is run by the event loop
PluginFairSpec ==
    /\ PluginSpec
    /\ WF_vars(\E r \in 1..MaxClicks : CollectStep(r))
    /\ WF_vars(\E r \in 1..MaxClicks : AfterCollect(r))
    /\ WF_vars(\E r \in 1..MaxClicks : AfterApply(r))

\* the calls of executeNesting that are past the guard and have not ended
InProgress ==
    { r \in 1..Len(runs) : runs[r].pc \in { "collect", "apply", "hung" } }

PluginTypeOK ==
    /\ isProcessing \in BOOLEAN
    /\ nestButtonEnabled \in BOOLEAN
    /\ Len(runs) <= MaxClicks
    /\ undos \in 0..MaxUndos

\* C21: at most one call of executeNesting is past the isProcessing guard at
\* any time, and a call made while one is in progress only shows
\* "Already processing...": it collects no image, runs no engine, moves no
\* item and changes neither isProcessing nor lastPlacements nor the run in
\* progress.
C21_OneRunPastGuard ==
    [][ /\ Cardinality(InProgress) <= 1
        /\ Cardinality(InProgress') <= 1
        /\ (InProgress # { } /\ Len(runs') > Len(runs)) =>
               /\ message' = "Already processing..."
               /\ runs' = Append(runs, NewRun("blocked", FALSE, << >>, 1))
               /\ UNCHANGED << isProcessing, lastPlacements, position,
                               nestButtonEnabled, undoMoves >> ]_vars

\* C21 witness: a call was turned away at the guard while another call is
\* inside await applyLayout
C21_Witness ==
    /\ \E r \in 1..Len(runs) : runs[r].pc = "apply"
    /\ Len(runs) >= 2
    /\ runs[Len(runs)].pc = "blocked"
    /\ message = "Already processing..."
    /\ isProcessing

ReleasedUnlessHung ==
    (InProgress # { }) ~> (Hung \/ (~isProcessing /\ nestButtonEnabled))

\* C23: lastPlacements becomes non-null only in the step that ends a run
\* whose applyLayout completed without throwing; undoLastNesting with
\* lastPlacements null moves no item and reports "Nothing to undo"; after
\* an undoLastNesting lastPlacements is null, so the undos made since
\* lastPlacements was stored moved items at most once.
C23_UndoAtMostOnce ==
    [][ /\ (lastPlacements' # << >> /\ lastPlacements' # lastPlacements) =>
               \E r \in 1..Len(runs) :
                   /\ runs[r].pc = "apply"
                   /\ runs[r].applyOk
                   /\ runs'[r].pc = "ended"
                   /\ lastPlacements'[1].placements = runs[r].placements
        /\ lastPlacements' # << >> =>
               \E r \in 1..Len(runs') :
                   runs'[r].pc = "ended" /\ runs'[r].applyOk
        /\ (undos' > undos /\ lastPlacements = << >>) =>
               /\ position' = position
               /\ message' = "Nothing to undo"
        /\ undos' > undos => lastPlacements' = << >>
        /\ (undos' > undos /\ position' # position) => undoMoves = 0
        /\ undoMoves' <= 1 ]_vars

\* C23 witness: after a nesting, a first undo moved the items back and a
\* second undo found nothing to undo
C23_Witness ==
    /\ undos = 2
    /\ undoMoves = 1
    /\ message = "Nothing to undo"
    /\ lastPlacements = << >>
    /\ \E r \in 1..Len(runs) : runs[r].pc = "ended" /\ runs[r].applyOk
    /\ \A k \in DOMAIN position : position[k] = "original"

====
